---- MODULE Spec2Model ----
(***************************************************************************)
(* Model of chatbot.py: the AIChatbot class (one Chat Session per object), *)
(* the module-level registry `bots` and the four Flask request handlers    *)
(* initialize, chat, clear and summary.                                    *)
(*                                                                         *)
(* Texts are sequences of tokens, so that f-string formatting is a         *)
(* concatenation and a prefix test is a comparison of leading tokens.      *)
(* Remote providers, client constructors and the process environment are   *)
(* outside the program: their outcomes are chosen nondeterministically.    *)
(***************************************************************************)
EXTENDS Integers, Sequences, FiniteSets, TLC

\* ------------------------------------------------------------------ bounds
\* Records (timestamps) that may be created in the sequential specification.
MaxNow == 4

\* Records (timestamps) that may be created in the two-session interleaved
\* specification SpecThreads.
ThreadNow == 3

\* Records that may be created in the single-session specification SpecLong.
LongNow == 22

\* Chat Session objects alive at once (registry entries plus objects still
\* referenced by a running chat call plus the one being constructed).
MaxBots == 5

\* Provider calls that may fail in SpecLong.
MaxFail == 1

\* Records (timestamps) that may be created in the one-session interleaved
\* specification SpecRace.
RaceNow == 5

\* --------------------------------------------------------- program constants
\* conversation_history[-20:]
HistoryWindow == 20

\* max_tokens=2000 (openai, claude)
MaxTokens == 2000

\* max_new_tokens=500 (huggingface)
MaxNewTokens == 500

\* ------------------------------------------------------------ value universe
None == "None"

Threads == {"t1", "t2"}

\* Session identifiers secrets.token_hex(16) can produce.
Sessions == {"s1", "s2"}

\* What a request's cookie holds under 'session_id'.
Cookies == Sessions \cup {None}

Supported == {"openai", "gemini", "claude", "huggingface"}

\* JSON bodies a client may post to /api/initialize; a provider of None is
\* JSON null, "absent" a body without the key.
Body(provider, api_key, model) ==
    [provider |-> provider, api_key |-> api_key, model |-> model]

InitBodies ==
    {Body("openai", "", None), Body("OpenAI", "", ""),
     Body("absent", "", None), Body("cohere", "k1", "my-model"),
     Body(None, "k1", None)}

\* What os.getenv may return.
EnvValues == {None}

\* Message texts a client may post ('' and a missing key are both <<>>).
Hello == <<"Hello">>

Howdy == <<"Howdy">>

Msgs == {<<>>, Hello, Howdy}

\* What a provider may answer.
Replies == {<<"Hi", "there">>}

\* str(e) of what a provider call may raise.
ProviderErrors == {<<"Connection", "error.">>}

\* What constructing a client may do.
CtorOutcomes == {"ok", "ImportError", "Exception"}

BotIds == 1 .. MaxBots

Free == [free |-> TRUE]

NoFrame == [session_id |-> None, bot |-> 0, user_message |-> <<>>, response |-> <<>>]

NoCall == [api |-> None]

NoResp == [op |-> None]

\* ------------------------------------------------------------------- state
VARIABLES
    bots,     \* the registry: session identifier -> Chat Session object
    objs,     \* the heap of AIChatbot objects: BotIds -> object or Free
    issued,   \* session identifiers handed out in cookies
    now,      \* the clock datetime.now() reads
    pc,       \* each thread's position in the chat handler
    frame,    \* each thread's locals inside chat: session_id, bot, user_message,
              \* response
    sent,     \* the provider call each thread has in flight
    resp,     \* the HTTP response the latest step sent, NoResp if none
    calls,    \* per object: chat() calls begun since construction or clear
    cleared   \* objects whose non-empty history a clear has emptied

vars == <<bots, objs, issued, now, pc, frame, sent, resp, calls, cleared>>

\* --------------------------------------------------------------- pure parts
\* str.lower() on the provider names in use.
Lower(p) == IF p = "OpenAI" THEN "openai" ELSE p

\* Python truthiness of an optional string.
Truthy(x) == x \notin {None, ""}

\* AIChatbot._get_default_model
GetDefaultModel(provider) ==
    CASE provider = "openai" -> "gpt-4o-mini"
      [] provider = "gemini" -> "gemini-pro"
      [] provider = "claude" -> "claude-3-opus-20240229"
      [] provider = "huggingface" -> "mistralai/Mixtral-8x7B-Instruct-v0.1"
      [] OTHER -> "gpt-3.5-turbo"

\* Mutant of Message: the reply is stored under the role name the summary's
\* ai_messages count suggests.
MessageAi(role, content, timestamp) ==
    [role |-> IF role = "assistant" THEN "ai" ELSE role,
     content |-> content, timestamp |-> timestamp]

\* The dict chat() appends.
Message(role, content, timestamp) ==
    [role |-> role, content |-> content, timestamp |-> timestamp]

\* The system prompt the chat handler passes.
SystemPrompt == <<"You are an intelligent and helpful AI assistant.">>

\* f"Error: {str(e)}"
ErrorMsg(e) == <<"Error:">> \o e

UnsupportedProvider == <<"Unsupported", "provider">>

StartsWith(s, p) == Len(s) >= Len(p) /\ SubSeq(s, 1, Len(p)) = p

\* Mutant of LastWindow: conversation_history[:20], the oldest records.
LastWindowHead(h) ==
    IF Len(h) <= HistoryWindow THEN h ELSE SubSeq(h, 1, HistoryWindow)

\* conversation_history[-20:]
LastWindow(h) ==
    IF Len(h) <= HistoryWindow THEN h
    ELSE SubSeq(h, Len(h) - HistoryWindow + 1, Len(h))

\* Mutant of Replay: the loop keeps the user records only.
RECURSIVE ReplayUsers(_)
ReplayUsers(h) ==
    IF h = <<>> THEN <<>>
    ELSE LET m == Head(h)
         IN  IF m.role \in {"user"}
             THEN <<[role |-> m.role, content |-> m.content]>>
                  \o ReplayUsers(Tail(h))
             ELSE ReplayUsers(Tail(h))

\* The loop of _chat_openai and _chat_claude: keep user and assistant
\* records of the window, reduced to role and content.
RECURSIVE Replay(_)
Replay(h) ==
    IF h = <<>> THEN <<>>
    ELSE LET m == Head(h)
         IN  IF m.role \in {"user", "assistant"}
             THEN <<[role |-> m.role, content |-> m.content]>> \o Replay(Tail(h))
             ELSE Replay(Tail(h))

\* The request _chat_openai builds.
ChatOpenai(self, user_message, system_prompt) ==
    [api |-> "chat.completions.create",
     model |-> self.model,
     messages |-> (IF system_prompt # <<>>
                   THEN <<[role |-> "system", content |-> system_prompt]>>
                   ELSE <<>>)
                  \o Replay(LastWindow(self.conversation_history)),
     max_tokens |-> MaxTokens]

\* The request _chat_gemini builds.
ChatGemini(self, user_message, system_prompt) ==
    [api |-> "send_message",
     history |-> <<>>,
     prompt |-> IF system_prompt # <<>>
                THEN system_prompt \o <<"\n\nUser: ">> \o user_message
                ELSE user_message]

\* The request _chat_claude builds.
ChatClaude(self, user_message, system_prompt) ==
    [api |-> "messages.create",
     model |-> self.model,
     max_tokens |-> MaxTokens,
     system |-> IF system_prompt # <<>> THEN system_prompt
                ELSE <<"You are a helpful AI assistant.">>,
     messages |-> Replay(LastWindow(self.conversation_history))]

\* The request _chat_huggingface builds.
ChatHuggingface(self, user_message, system_prompt) ==
    [api |-> "text_generation",
     prompt |-> IF system_prompt # <<>>
                THEN <<"System: ">> \o system_prompt \o <<"\n\nUser: ">>
                     \o user_message \o <<"\n\nAssistant:">>
                ELSE user_message,
     model |-> self.model,
     max_new_tokens |-> MaxNewTokens]

\* The dispatch of AIChatbot.chat on self.provider.
ProviderRequest(self, user_message, system_prompt) ==
    CASE self.provider = "openai" -> ChatOpenai(self, user_message, system_prompt)
      [] self.provider = "gemini" -> ChatGemini(self, user_message, system_prompt)
      [] self.provider = "claude" -> ChatClaude(self, user_message, system_prompt)
      [] self.provider = "huggingface" ->
            ChatHuggingface(self, user_message, system_prompt)

RECURSIVE CountRole(_, _)
CountRole(h, role) ==
    IF h = <<>> THEN 0
    ELSE (IF Head(h).role = role THEN 1 ELSE 0) + CountRole(Tail(h), role)

\* AIChatbot.get_conversation_summary
GetConversationSummary(self) ==
    [total_messages |-> Len(self.conversation_history),
     user_messages |-> CountRole(self.conversation_history, "user"),
     ai_messages |-> CountRole(self.conversation_history, "assistant"),
     provider |-> self.provider,
     model |-> self.model]

\* ------------------------------------------------------------------- heap
\* Objects some registry entry or some running chat call still refers to.
Reachable(b, f) ==
    {b[s] : s \in DOMAIN b} \cup {f[t].bot : t \in Threads}

\* Reference counting: an object nothing refers to is freed.
Collect(o, b, f) ==
    [i \in BotIds |-> IF i \in Reachable(b, f) THEN o[i] ELSE Free]

CollectCalls(c, b, f) ==
    [i \in BotIds |-> IF i \in Reachable(b, f) THEN c[i] ELSE 0]

FreeIds == {i \in BotIds : objs[i] = Free}

\* Where a new object is put: slot numbers carry no meaning, so the slot of
\* the object it replaces is taken again when nothing else refers to that
\* object, and the lowest free slot otherwise.
NewId(sid) ==
    IF sid \in DOMAIN bots /\ \A t \in Threads : frame[t].bot # bots[sid]
    THEN bots[sid]
    ELSE CHOOSE i \in FreeIds : \A j \in FreeIds : i <= j

Idle(t) == pc[t] = "idle"

AllIdle == \A t \in Threads : Idle(t)

\* -------------------------------------------------------------------- init
Init ==
    /\ bots = [s \in {} |-> 0]
    /\ objs = [i \in BotIds |-> Free]
    /\ issued = {}
    /\ now = 0
    /\ pc = [t \in Threads |-> "idle"]
    /\ frame = [t \in Threads |-> NoFrame]
    /\ sent = [t \in Threads |-> NoCall]
    /\ resp = NoResp
    /\ calls = [i \in BotIds |-> 0]
    /\ cleared = {}

\* ---------------------------------------------------------------- actions
\* What str(e) is for each way the construction of AIChatbot can raise.
CtorMessage(kind) ==
    CASE kind = "ImportError" -> <<"No module named the provider library">>
      [] kind = "AttributeError" ->
            <<"'NoneType' object has no attribute 'lower'">>
      [] OTHER -> <<"client constructor error">>

\* How AIChatbot(provider, model, api_key) ends: "ok", or the exception raised.
\* provider.lower() raises on JSON null; _initialize_client imports and
\* constructs a client only for the four supported providers.
Construct(provider, ctor) ==
    IF provider = None THEN "AttributeError"
    ELSE IF Lower(provider) \in Supported THEN ctor
    ELSE "ok"

\* Mutant of NewBot: the new object starts with the system instruction as
\* its first record.
NewBotSeeded(provider, model, api_key, envval) ==
    [provider |-> Lower(provider),
     api_key |-> IF Truthy(api_key) THEN api_key ELSE envval,
     conversation_history |-> <<[role |-> "system", content |-> <<>>,
                                 timestamp |-> 0]>>,
     model |-> IF Truthy(model) THEN model
               ELSE GetDefaultModel(Lower(provider))]

\* AIChatbot.__init__: the fields of the new object.
NewBot(provider, model, api_key, envval) ==
    [provider |-> Lower(provider),
     api_key |-> IF Truthy(api_key) THEN api_key ELSE envval,
     conversation_history |-> <<>>,
     model |-> IF Truthy(model) THEN model
               ELSE GetDefaultModel(Lower(provider))]

\* session.get('session_id'), or else a token secrets.token_hex(16) draws:
\* one no cookie holds yet.
NewSessionId(cookie) ==
    IF cookie # None THEN {cookie} ELSE Sessions \ issued

\* data.get('provider', 'openai')
DataGetProvider(provider_in) ==
    IF provider_in = "absent" THEN "openai" ELSE provider_in

\* Mutant of Register: the registry holds the latest session only, the
\* entries of the other identifiers are dropped.
RegisterEvicts(sid, provider, bot) ==
    /\ FreeIds # {}
    /\ LET id == NewId(sid)
           nb == [s \in {sid} |-> id]
       IN  /\ bots' = nb
           /\ objs' = Collect([objs EXCEPT ![id] = bot], nb, frame)
           /\ calls' = CollectCalls([calls EXCEPT ![id] = 0], nb, frame)
           /\ cleared' = (cleared \ {id}) \cap Reachable(nb, frame)
           /\ resp' = [op |-> "initialize", session |-> sid, status |-> 200,
                       success |-> TRUE,
                       message |-> <<"Chatbot initialized with", provider>>,
                       model |-> bot.model]

\* initialize, the construction succeeded: bots[session_id] = bot and the
\* success answer.
Register(sid, provider, bot) ==
    /\ FreeIds # {}
    /\ LET id == NewId(sid)
           nb == [s \in DOMAIN bots \cup {sid} |->
                     IF s = sid THEN id ELSE bots[s]]
       IN  /\ bots' = nb
           /\ objs' = Collect([objs EXCEPT ![id] = bot], nb, frame)
           /\ calls' = CollectCalls([calls EXCEPT ![id] = 0], nb, frame)
           /\ cleared' = (cleared \ {id}) \cap Reachable(nb, frame)
           /\ resp' = [op |-> "initialize", session |-> sid, status |-> 200,
                       success |-> TRUE,
                       message |-> <<"Chatbot initialized with", provider>>,
                       model |-> bot.model]

\* Mutant of Reject: the failed request also discards the session stored
\* under the identifier.
RejectDropsSession(sid, outcome) ==
    /\ resp' = [op |-> "initialize", session |-> sid, status |-> 500,
                success |-> FALSE, message |-> CtorMessage(outcome)]
    /\ bots' = [s \in DOMAIN bots \ {sid} |-> bots[s]]
    /\ objs' = Collect(objs, bots', frame)
    /\ calls' = CollectCalls(calls, bots', frame)
    /\ cleared' = cleared \cap Reachable(bots', frame)

\* initialize, the construction raised: the except clause answers, the store
\* step was never reached.
Reject(sid, outcome) ==
    /\ resp' = [op |-> "initialize", session |-> sid, status |-> 500,
                success |-> FALSE, message |-> CtorMessage(outcome)]
    /\ UNCHANGED <<bots, objs, calls, cleared>>

\* POST /api/initialize
Initialize(t, cookie, provider_in, api_key, model, envval, ctor, sid) ==
    /\ Idle(t)
    /\ cookie \in issued \cup {None}
    /\ sid \in NewSessionId(cookie)
    /\ issued' = issued \cup {sid}
    /\ LET provider == DataGetProvider(provider_in)
           outcome == Construct(provider, ctor)
       IN  IF outcome = "ok"
           THEN Register(sid, provider, NewBot(provider, model, api_key, envval))
           ELSE Reject(sid, outcome)
    /\ UNCHANGED <<now, pc, frame, sent>>

\* Mutant of EmptyMessage: the handler does not test the message.
EmptyMessageNever(message) == FALSE

\* `not user_message`
EmptyMessage(message) == message = <<>>

\* Mutant of AppendUser: the user record is not stored before the call.
AppendUserSkipped(o, b, message, timestamp) == o

\* Mutant of AppendUser: one history list is shared by every object, as a
\* class attribute would be.
AppendUserShared(o, b, message, timestamp) ==
    [i \in DOMAIN o |->
        IF o[i] = Free THEN o[i]
        ELSE [o[i] EXCEPT !.conversation_history =
                Append(@, Message("user", message, timestamp))]]

\* The first statement of AIChatbot.chat: the user record is appended.
AppendUser(o, b, message, timestamp) ==
    [o EXCEPT ![b].conversation_history =
        Append(@, Message("user", message, timestamp))]

\* Mutant of AppendAssistant: the reply is stored only behind a user record,
\* as it would be were the call's two appends one critical section.
AppendAssistantPaired(o, b, response, timestamp) ==
    LET h == o[b].conversation_history
    IN  IF h # <<>> /\ h[Len(h)].role = "user"
        THEN [o EXCEPT ![b].conversation_history =
                Append(@, Message("assistant", response, timestamp))]
        ELSE o

\* AIChatbot.chat after the adapter returned: the assistant record is
\* appended.
AppendAssistant(o, b, response, timestamp) ==
    [o EXCEPT ![b].conversation_history =
        Append(@, Message("assistant", response, timestamp))]

\* POST /api/chat up to and including the first statement of AIChatbot.chat:
\* the checks of the handler, the lookup, the append of the user record.
ChatRequest(t, cookie, message) ==
    /\ Idle(t)
    /\ cookie \in issued \cup {None}
    /\ IF cookie = None \/ cookie \notin DOMAIN bots
       THEN /\ resp' = [op |-> "chat", session |-> cookie, status |-> 400, success |-> FALSE,
                  message |-> <<"Chatbot not initialized">>]
            /\ UNCHANGED <<objs, now, pc, frame, calls, cleared>>
       ELSE IF EmptyMessage(message)
       THEN /\ resp' = [op |-> "chat", session |-> cookie, status |-> 400, success |-> FALSE,
                  message |-> <<"Empty message">>]
            /\ UNCHANGED <<objs, now, pc, frame, calls, cleared>>
       ELSE LET b == bots[cookie]
            IN  /\ objs' = AppendUser(objs, b, message, now)
                /\ now' = now + 1
                /\ pc' = [pc EXCEPT ![t] = "call"]
                /\ frame' = [frame EXCEPT ![t] =
                     [session_id |-> cookie, bot |-> b, user_message |-> message,
                      response |-> <<>>]]
                /\ calls' = [calls EXCEPT ![b] = @ + 1]
                /\ UNCHANGED cleared
                /\ resp' = NoResp
    /\ UNCHANGED <<bots, issued, sent>>

\* AIChatbot.chat: the dispatch on self.provider; a supported provider's
\* adapter builds its request from the history as it is now and sends it.
ChatCall(t) ==
    /\ pc[t] = "call"
    /\ LET self == objs[frame[t].bot]
       IN  IF self.provider \in Supported
           THEN /\ sent' = [sent EXCEPT ![t] =
                     ProviderRequest(self, frame[t].user_message, SystemPrompt)]
                /\ pc' = [pc EXCEPT ![t] = "wait"]
                /\ UNCHANGED frame
           ELSE /\ frame' = [frame EXCEPT ![t].response = UnsupportedProvider]
                /\ pc' = [pc EXCEPT ![t] = "store"]
                /\ UNCHANGED sent
    /\ resp' = NoResp
    /\ UNCHANGED <<bots, objs, issued, now, calls, cleared>>

\* The remote provider answers with a text.
ProviderReply(t, reply) ==
    /\ pc[t] = "wait"
    /\ frame' = [frame EXCEPT ![t].response = reply]
    /\ sent' = [sent EXCEPT ![t] = NoCall]
    /\ pc' = [pc EXCEPT ![t] = "store"]
    /\ resp' = NoResp
    /\ UNCHANGED <<bots, objs, issued, now, calls, cleared>>

\* The provider call raises: the except clause of AIChatbot.chat builds the
\* error message and returns it.
ProviderFail(t, e) ==
    /\ pc[t] = "wait"
    /\ frame' = [frame EXCEPT ![t].response = ErrorMsg(e)]
    /\ sent' = [sent EXCEPT ![t] = NoCall]
    /\ pc' = [pc EXCEPT ![t] = "ret"]
    /\ resp' = NoResp
    /\ UNCHANGED <<bots, objs, issued, now, calls, cleared>>

\* AIChatbot.chat: the append of the assistant record.
ChatStore(t) ==
    /\ pc[t] = "store"
    /\ objs' = AppendAssistant(objs, frame[t].bot, frame[t].response, now)
    /\ now' = now + 1
    /\ pc' = [pc EXCEPT ![t] = "ret"]
    /\ resp' = NoResp
    /\ UNCHANGED <<bots, issued, frame, sent, calls, cleared>>

\* AIChatbot.chat returns and the handler answers.
ChatReturn(t) ==
    /\ pc[t] = "ret"
    /\ resp' = [op |-> "chat", session |-> frame[t].session_id,
          status |-> 200, success |-> TRUE,
          response |-> frame[t].response,
          history |-> objs[frame[t].bot].conversation_history]
    /\ frame' = [frame EXCEPT ![t] = NoFrame]
    /\ pc' = [pc EXCEPT ![t] = "idle"]
    /\ objs' = Collect(objs, bots, frame')
    /\ calls' = CollectCalls(calls, bots, frame')
    /\ cleared' = cleared \cap Reachable(bots, frame')
    /\ UNCHANGED <<bots, issued, now, sent>>

\* Mutant of ClearHistory: the session is set up anew, its model back to the
\* provider's default.
ClearHistoryResets(o, b) ==
    [o EXCEPT ![b].conversation_history = <<>>,
              ![b].model = GetDefaultModel(o[b].provider)]

\* AIChatbot.clear_history
ClearHistory(o, b) == [o EXCEPT ![b].conversation_history = <<>>]

\* POST /api/clear
Clear(t, cookie) ==
    /\ Idle(t)
    /\ cookie \in issued \cup {None}
    /\ IF cookie # None /\ cookie \in DOMAIN bots
       THEN /\ objs' = ClearHistory(objs, bots[cookie])
            /\ calls' = [calls EXCEPT ![bots[cookie]] = 0]
            /\ cleared' = IF objs[bots[cookie]].conversation_history # <<>>
                          THEN cleared \cup {bots[cookie]} ELSE cleared
            /\ resp' = [op |-> "clear", session |-> cookie, status |-> 200, success |-> TRUE]
       ELSE /\ resp' = [op |-> "clear", session |-> cookie, status |-> 400, success |-> FALSE,
                  message |-> <<"No active session">>]
            /\ UNCHANGED <<objs, calls, cleared>>
    /\ UNCHANGED <<bots, issued, now, pc, frame, sent>>

\* GET /api/summary
Summary(t, cookie) ==
    /\ Idle(t)
    /\ cookie \in issued \cup {None}
    /\ IF cookie # None /\ cookie \in DOMAIN bots
       THEN resp' = [op |-> "summary", session |-> cookie, status |-> 200, success |-> TRUE,
                 summary |-> GetConversationSummary(objs[bots[cookie]])]
       ELSE resp' = [op |-> "summary", session |-> cookie, status |-> 400, success |-> FALSE,
                 message |-> <<"No active session">>]
    /\ UNCHANGED <<bots, objs, issued, now, pc, frame, sent, calls, cleared>>

\* ---------------------------------------------------------- specifications
\* Requests on threads that interleave at the steps of chat (the server runs
\* each request on a thread of its own). Two sessions that differ in
\* provider, credential and model, with clients that were handed a cookie.
ThreadBodies ==
    {Body("openai", "k1", None), Body("cohere", "k2", "my-model")}

NextThreads ==
    \/ \E t \in Threads, c \in Cookies, d \in ThreadBodies, v \in EnvValues :
            \E s \in NewSessionId(c) :
                Initialize(t, c, d.provider, d.api_key, d.model, v, "ok", s)
    \/ \E t \in Threads, c \in Sessions :
            now + 2 <= ThreadNow /\ ChatRequest(t, c, Hello)
    \/ \E t \in Threads : ChatCall(t)
    \/ \E t \in Threads, r \in Replies : ProviderReply(t, r)
    \/ \E t \in Threads, e \in ProviderErrors : ProviderFail(t, e)
    \/ \E t \in Threads : ChatStore(t)
    \/ \E t \in Threads : ChatReturn(t)
    \/ \E t \in Threads, c \in Sessions : Clear(t, c)

SpecThreads == Init /\ [][NextThreads]_vars

\* Each request runs to completion before the next one starts: one worker
\* serves them all.
Worker == {"t1"}

Next ==
    \/ \E t \in Worker, c \in Cookies, d \in InitBodies, v \in EnvValues,
          o \in CtorOutcomes :
            \E s \in NewSessionId(c) :
                Initialize(t, c, d.provider, d.api_key, d.model, v, o, s)
    \/ \E t \in Worker, c \in Cookies, m \in {<<>>, Hello} :
            now + 2 <= MaxNow /\ ChatRequest(t, c, m)
    \/ \E t \in Worker : ChatCall(t)
    \/ \E t \in Worker, r \in Replies : ProviderReply(t, r)
    \/ \E t \in Worker, e \in ProviderErrors : ProviderFail(t, e)
    \/ \E t \in Worker : ChatStore(t)
    \/ \E t \in Worker : ChatReturn(t)
    \/ \E t \in Worker, c \in Cookies : Clear(t, c)
    \/ \E t \in Worker, c \in Cookies : Summary(t, c)

Spec == Init /\ [][Next]_vars

\* One session, every provider, a conversation long enough to outgrow the
\* window the adapters replay.
LongBodies == {Body(p, "k1", None) : p \in Supported \cup {"cohere"}}

\* The message texts vary while the conversation is young.
LongMsgs(h) == IF Len(h) < 3 THEN {Hello, Howdy} ELSE {Hello}

\* Provider calls that failed in the conversation h, the running one apart.
Failed(h) == CountRole(h, "user") - CountRole(h, "assistant") - 1

NextLong ==
    \/ \E c \in Cookies, d \in LongBodies, v \in EnvValues :
            \E s \in NewSessionId(c) \cap {"s1"} :
                Initialize("t1", c, d.provider, d.api_key, d.model, v, "ok", s)
    \/ \E c \in Sessions :
            \E m \in LongMsgs(IF c \in DOMAIN bots
                              THEN objs[bots[c]].conversation_history ELSE <<>>) :
                now + 2 <= LongNow /\ ChatRequest("t1", c, m)
    \/ ChatCall("t1")
    \/ \E r \in Replies : ProviderReply("t1", r)
    \/ \E e \in ProviderErrors :
            /\ pc["t1"] = "wait"
            /\ Failed(objs[frame["t1"].bot].conversation_history) < MaxFail
            /\ ProviderFail("t1", e)
    \/ ChatStore("t1")
    \/ ChatReturn("t1")

SpecLong == Init /\ [][NextLong]_vars

\* One session that two threads use at once: chat and clear requests that
\* carry the same cookie interleave at the steps of chat.
NextRace ==
    \/ \E t \in Threads, v \in EnvValues :
            Initialize(t, None, "openai", "k1", None, v, "ok", "s1")
    \/ \E t \in Threads : now + 2 <= RaceNow /\ ChatRequest(t, "s1", Hello)
    \/ \E t \in Threads : ChatCall(t)
    \/ \E t \in Threads, r \in Replies : ProviderReply(t, r)
    \/ \E t \in Threads, e \in ProviderErrors : ProviderFail(t, e)
    \/ \E t \in Threads : ChatStore(t)
    \/ \E t \in Threads : ChatReturn(t)
    \/ \E t \in Threads : Clear(t, "s1")

SpecRace == Init /\ [][NextRace]_vars

\* ------------------------------------------------------------------ claims
History(b) == objs[b].conversation_history

\* The bot a running chat call of thread t works on.
BotOf(t) == objs[frame[t].bot]

\* C1: with no request running, the summary of every session reports
\* total == 2 * n and userCount == assistantCount == n, where n is the number
\* of chat(text) calls made on it since it was constructed or last cleared,
\* whatever the remote calls did.
C1_TwoRecordsPerCall ==
    AllIdle =>
        \A s \in DOMAIN bots :
            LET summary == GetConversationSummary(objs[bots[s]])
                n == calls[bots[s]]
            IN  /\ summary.total_messages = 2 * n
                /\ summary.user_messages = n
                /\ summary.ai_messages = n

\* C2: a chat call whose remote call failed returns a text that starts with
\* "Error:", and the history it leaves ends with the user record followed by
\* an assistant record holding that same text.
C2_ErrorStored ==
    (/\ resp.op = "chat"
     /\ resp.status = 200
     /\ \E e \in ProviderErrors : resp.response = ErrorMsg(e))
    => LET h == resp.history
           n == Len(h)
       IN  /\ StartsWith(resp.response, <<"Error:">>)
           /\ n >= 2
           /\ h[n - 1].role = "user"
           /\ h[n].role = "assistant"
           /\ h[n].content = resp.response

\* C3: right after a clear the session's summary reports total == 0, and
\* once a session whose history a clear has emptied has served one more chat
\* call its history holds exactly one user and one assistant record.
C3_ClearThenChat ==
    /\ (resp.op = "clear" /\ resp.status = 200)
        => GetConversationSummary(objs[bots[resp.session]]).total_messages = 0
    /\ AllIdle =>
        \A s \in DOMAIN bots :
            (bots[s] \in cleared /\ calls[bots[s]] = 1)
            => LET summary == GetConversationSummary(objs[bots[s]])
               IN  /\ summary.total_messages = 2
                   /\ summary.user_messages = 1
                   /\ summary.ai_messages = 1

\* What a stored record looks like once reduced to role and content.
Entry(m) == [role |-> m.role, content |-> m.content]

\* The conversation a provider call carries: the chat messages without the
\* system instruction, or the one prompt of the text interfaces.
Handed(call) ==
    CASE call.api = "chat.completions.create" ->
            SelectSeq(call.messages, LAMBDA m : m.role # "system")
      [] call.api = "messages.create" -> call.messages
      [] call.api = "send_message" ->
            call.history \o <<[role |-> "user", content |-> call.prompt]>>
      [] call.api = "text_generation" ->
            <<[role |-> "user", content |-> call.prompt]>>

\* e is the last HistoryWindow records of h, in their stored order.
IsLastWindow(e, h) ==
    /\ Len(e) = HistoryWindow
    /\ \A i \in 1 .. HistoryWindow :
            e[i] = Entry(h[Len(h) - HistoryWindow + i])

\* e carries no stored record, only the prompt made from the new text.
IsPromptOnly(call, e, text) ==
    /\ Len(e) = 1
    /\ \/ /\ call.api = "send_message"
          /\ call.history = <<>>
          /\ call.prompt = SystemPrompt \o <<"\n\nUser: ">> \o text
       \/ /\ call.api = "text_generation"
          /\ call.prompt = <<"System: ">> \o SystemPrompt \o <<"\n\nUser: ">>
                           \o text \o <<"\n\nAssistant:">>

\* C4 as stated: for every provider the conversation handed to the provider
\* call holds at most 20 entries, and when more than 20 records are stored
\* they are exactly the last 20 stored records in stored order.
C4_WindowEveryProvider ==
    \A t \in Threads :
        pc[t] = "wait" =>
            LET h == BotOf(t).conversation_history
                e == Handed(sent[t])
            IN  /\ Len(e) <= HistoryWindow
                /\ Len(h) > HistoryWindow => IsLastWindow(e, h)

\* C4 amended: the conversation handed to any provider call holds at most 20
\* entries; for openai and claude, when more than 20 records are stored, they
\* are exactly the last 20 stored records in stored order; gemini and
\* huggingface are handed no stored record, only the new user text.
C4_WindowReplayed ==
    \A t \in Threads :
        pc[t] = "wait" =>
            LET h == BotOf(t).conversation_history
                e == Handed(sent[t])
            IN  /\ Len(e) <= HistoryWindow
                /\ (BotOf(t).provider \in {"openai", "claude"}
                    /\ Len(h) > HistoryWindow) => IsLastWindow(e, h)
                /\ BotOf(t).provider \in {"gemini", "huggingface"}
                    => IsPromptOnly(sent[t], e, frame[t].user_message)

\* A call of openai is in flight on a history longer than the window, whose
\* first record differs from the records the window holds.
C4_Witness ==
    \E t \in Threads :
        /\ pc[t] = "wait"
        /\ BotOf(t).provider = "openai"
        /\ Len(BotOf(t).conversation_history) > HistoryWindow
        /\ BotOf(t).conversation_history[1].content = Howdy

\* C7 as stated: in the second of two chat calls on a fresh session, for
\* every provider, the provider is given exactly three entries in order: the
\* first call's user record, its assistant record, the new user record.
C7_ThreeEntries ==
    \A t \in Threads :
        (pc[t] = "wait" /\ calls[frame[t].bot] = 2) =>
            LET h == BotOf(t).conversation_history
                e == Handed(sent[t])
            IN  /\ Len(h) = 3
                /\ Len(e) = 3
                /\ \A i \in 1 .. 3 : e[i] = Entry(h[i])
                /\ <<e[1].role, e[2].role, e[3].role>>
                        = <<"user", "assistant", "user">>
                /\ e[3].content = frame[t].user_message

\* C7 amended: in the second of two chat calls on a fresh session, openai and
\* claude are given the stored records in order: the first call's user
\* record, the first call's assistant record when one was stored (none when
\* its remote call failed), then the new user record; gemini and huggingface
\* are given only the new user text.
C7_SecondCallInput ==
    \A t \in Threads :
        (pc[t] = "wait" /\ calls[frame[t].bot] = 2) =>
            LET h == BotOf(t).conversation_history
                e == Handed(sent[t])
                roles == [i \in 1 .. Len(e) |-> e[i].role]
            IN  /\ BotOf(t).provider \in {"openai", "claude"} =>
                    /\ Len(e) = Len(h)
                    /\ \A i \in 1 .. Len(h) : e[i] = Entry(h[i])
                    /\ \/ roles = <<"user", "assistant", "user">>
                       \/ roles = <<"user", "user">>
                    /\ e[Len(e)].content = frame[t].user_message
                /\ BotOf(t).provider \in {"gemini", "huggingface"}
                    => IsPromptOnly(sent[t], e, frame[t].user_message)

\* The second call of claude is in flight after a first call that was
\* answered, with two different user texts.
C7_Witness ==
    \E t \in Threads :
        /\ pc[t] = "wait"
        /\ calls[frame[t].bot] = 2
        /\ BotOf(t).provider = "claude"
        /\ Len(Handed(sent[t])) = 3
        /\ Handed(sent[t])[1].content = Howdy
        /\ Handed(sent[t])[2].role = "assistant"
        /\ Handed(sent[t])[3].content = Hello

\* C5 as stated: an initialize request whose provider name is not one of the
\* four supported providers is answered success:false and leaves the
\* registry and every stored session as they were.
C5_UnsupportedRejected ==
    [][\A c \in Cookies, sid \in Sessions :
        (sid \in NewSessionId(c) /\ sid \in issued') =>
            \A t \in Threads, d \in InitBodies, v \in EnvValues,
               o \in CtorOutcomes :
                (/\ d.provider \notin {None, "absent"}
                 /\ Lower(d.provider) \notin Supported
                 /\ Initialize(t, c, d.provider, d.api_key, d.model, v, o, sid))
                => /\ resp'.success = FALSE
                   /\ bots' = bots
                   /\ objs' = objs]_vars

C8_ThrowStoresNothing ==
    [][\A c \in Cookies, sid \in Sessions :
        (sid \in NewSessionId(c) /\ sid \in issued') =>
            \A t \in Threads, d \in InitBodies, v \in EnvValues,
               o \in CtorOutcomes :
                (/\ Construct(DataGetProvider(d.provider), o) # "ok"
                 /\ Initialize(t, c, d.provider, d.api_key, d.model, v, o, sid))
                => /\ resp'.op = "initialize"
                   /\ resp'.success = FALSE
                   /\ resp'.status = 500
                   /\ bots' = bots
                   /\ objs' = objs]_vars

\* An initialize request has just failed on a session identifier whose
\* stored session holds records.
C8_Witness ==
    /\ resp.op = "initialize"
    /\ resp.status = 500
    /\ resp.session \in DOMAIN bots
    /\ History(bots[resp.session]) # <<>>

\* What a usage error leaves behind: the 400 answer with its fixed message,
\* no provider call, the registry and every session as they were.
UsageError(message) ==
    /\ resp' # NoResp
    /\ resp'.status = 400
    /\ resp'.success = FALSE
    /\ resp'.message = message
    /\ bots' = bots
    /\ objs' = objs
    /\ sent' = sent
    /\ pc' = pc

\* C9: chat, clear and summary on a session identifier with no session in
\* the registry, and chat with an empty message on an existing session, are
\* answered success:false with status 400 and a fixed message, make no
\* provider call and leave the registry and every history unchanged.
C9_UsageErrors ==
    [][\A t \in Threads, c \in Cookies :
        /\ \A m \in Msgs :
            /\ (c \notin DOMAIN bots /\ ChatRequest(t, c, m))
                    => UsageError(<<"Chatbot not initialized">>)
            /\ (c \in DOMAIN bots /\ m = <<>> /\ ChatRequest(t, c, m))
                    => UsageError(<<"Empty message">>)
        /\ (c \notin DOMAIN bots /\ Clear(t, c))
                => UsageError(<<"No active session">>)
        /\ (c \notin DOMAIN bots /\ Summary(t, c))
                => UsageError(<<"No active session">>)]_vars

\* An empty message has just been refused on a session that holds records.
C9_Witness ==
    /\ resp.op = "chat"
    /\ resp.status = 400
    /\ resp.message = <<"Empty message">>
    /\ History(bots[resp.session]) # <<>>

\* C10: a clear on an existing session empties its history, keeps its
\* provider, model and credential, keeps the registry and every other
\* object as they were, and a summary taken afterwards reports the provider
\* and model it reported before.
C10_ClearFrame ==
    [][\A t \in Threads, c \in Cookies :
        (c \in DOMAIN bots /\ Clear(t, c)) =>
            LET b == bots[c]
            IN  /\ objs'[b].conversation_history = <<>>
                /\ objs'[b].provider = objs[b].provider
                /\ objs'[b].model = objs[b].model
                /\ objs'[b].api_key = objs[b].api_key
                /\ bots' = bots
                /\ DOMAIN bots' = DOMAIN bots
                /\ \A i \in BotIds \ {b} : objs'[i] = objs[i]
                /\ GetConversationSummary(objs'[b]).provider
                        = GetConversationSummary(objs[b]).provider
                /\ GetConversationSummary(objs'[b]).model
                        = GetConversationSummary(objs[b]).model
                /\ GetConversationSummary(objs'[b]).total_messages = 0]_vars

\* A clear has just emptied the non-empty history of a session whose model
\* is not its provider's default.
C10_Witness ==
    /\ resp.op = "clear"
    /\ resp.status = 200
    /\ bots[resp.session] \in cleared
    /\ objs[bots[resp.session]].model = "my-model"
    /\ History(bots[resp.session]) = <<>>

\* C11: across any sequence of initialize, chat, clear and summary requests
\* the set of session identifiers in the registry never shrinks: an
\* identifier once stored stays mapped to some Chat Session, and the steps of
\* chat, clear and summary neither add nor remove a registry entry (only a
\* successful initialize changes the registry, and only at its own
\* identifier).
C11_RegistryGrows ==
    [][/\ \A s \in DOMAIN bots :
            /\ s \in DOMAIN bots'
            /\ bots'[s] \in BotIds
            /\ objs'[bots'[s]] # Free
       /\ bots' # bots =>
            /\ resp' # NoResp
            /\ resp'.op = "initialize"
            /\ resp'.success = TRUE
            /\ DOMAIN bots' = DOMAIN bots \cup {resp'.session}
            /\ \A s \in DOMAIN bots \ {resp'.session} : bots'[s] = bots[s]
       /\ \A t \in Threads, c \in Cookies :
            ((\E m \in Msgs : ChatRequest(t, c, m)) \/ ChatCall(t)
             \/ (\E r \in Replies : ProviderReply(t, r))
             \/ (\E e \in ProviderErrors : ProviderFail(t, e))
             \/ ChatStore(t) \/ ChatReturn(t) \/ Clear(t, c) \/ Summary(t, c))
            => bots' = bots]_vars

\* A second session has just been stored while the first, which has served a
\* chat, is still in the registry with its records.
C11_Witness ==
    /\ resp.op = "initialize"
    /\ resp.status = 200
    /\ Cardinality(DOMAIN bots) = 2
    /\ \E s \in DOMAIN bots \ {resp.session} : History(bots[s]) # <<>>

\* The roles of the records of a history, in stored order.
Roles(h) == [i \in 1 .. Len(h) |-> h[i].role]

\* C12: no lock guards a session: the append of the assistant record of a
\* chat call is made on the history as the other requests have left it since
\* the call's user append. Made after a clear it leaves a history whose only
\* record is an assistant record; made after the assistant append of an
\* interleaved chat it leaves two user records followed by two assistant
\* records.
C12_RaceBreaksPairing ==
    [][\A t \in Threads :
        ChatStore(t) =>
            LET b == frame[t].bot
                h == History(b)
                g == objs'[b].conversation_history
            IN  /\ Roles(g) = Append(Roles(h), "assistant")
                /\ g[Len(g)].content = frame[t].response
                /\ h = <<>> => Roles(g) = <<"assistant">>
                /\ (Len(h) >= 3 /\ SubSeq(Roles(h), Len(h) - 2, Len(h))
                                     = <<"user", "user", "assistant">>)
                    => SubSeq(Roles(g), Len(g) - 3, Len(g))
                        = <<"user", "user", "assistant", "assistant">>]_vars

\* With no request running the session's history starts with an assistant
\* record, the one a chat stored into the history a clear had emptied after
\* that chat's user append, and goes on with the records of two interleaved
\* chats: two user records followed by two assistant records.
C12_Witness ==
    /\ AllIdle
    /\ \E s \in DOMAIN bots :
        Roles(History(bots[s]))
            = <<"assistant", "user", "user", "assistant", "assistant">>

\* C13: a successful initialize on a session identifier that already has a
\* session stores a new Chat Session under it whose history is empty: right
\* after, the summary reports total 0 (no record of the earlier session is
\* reached through the identifier), its provider is the one the request
\* named, its model the one the request named or else that provider's
\* default, and the answer reports that provider and that model.
C13_InitializeReplaces ==
    [][\A c \in Cookies, sid \in Sessions :
        (/\ sid \in NewSessionId(c) /\ sid \in DOMAIN bots
         /\ resp'.op = "initialize" /\ resp'.success = TRUE
         /\ resp'.session = sid) =>
            \A t \in Threads, d \in InitBodies, v \in EnvValues,
               o \in CtorOutcomes :
                Initialize(t, c, d.provider, d.api_key, d.model, v, o, sid)
                => LET provider == DataGetProvider(d.provider)
                       summary == GetConversationSummary(objs'[bots'[sid]])
                   IN  /\ objs'[bots'[sid]].conversation_history = <<>>
                       /\ summary.total_messages = 0
                       /\ summary.user_messages = 0
                       /\ summary.ai_messages = 0
                       /\ summary.provider = Lower(provider)
                       /\ summary.model =
                            (IF d.model \in {None, ""}
                             THEN GetDefaultModel(Lower(provider))
                             ELSE d.model)
                       /\ resp'.message
                            = <<"Chatbot initialized with", provider>>
                       /\ resp'.model = summary.model]_vars

\* An initialize has just succeeded on an identifier whose session held
\* records, naming a provider and a model other than the earlier session's:
\* the session now stored is that of the new request.
C13_Witness ==
    /\ resp.op = "initialize"
    /\ resp.status = 200
    /\ resp.model = "my-model"
    /\ objs[bots[resp.session]].provider = "cohere"
    /\ History(bots[resp.session]) = <<>>
    /\ now > 0
    /\ \A s \in DOMAIN bots : s = resp.session

\* The sessions stored under the identifiers other than sid are, after the
\* step, the objects they were: same history, provider, model, credential.
OthersUntouched(sid) ==
    \A s \in DOMAIN bots \ {sid} :
        /\ bots'[s] = bots[s]
        /\ objs'[bots[s]] = objs[bots[s]]

\* C14: sessions are isolated. Under any interleaving a chat request, each of
\* its later steps and a clear on one identifier leave the session stored
\* under any other identifier as it was (history, provider, model and
\* credential), two identifiers never share an object, and each chat call
\* still appends its user record to its own session before it sends its
\* provider request and its assistant record to that same object after the
\* provider has returned.
C14_Isolation ==
    [][/\ \A s1 \in DOMAIN bots, s2 \in DOMAIN bots :
            s1 # s2 => bots[s1] # bots[s2]
       /\ \A t \in Threads, c \in Sessions :
            (c \in DOMAIN bots
             /\ ((\E m \in Msgs : ChatRequest(t, c, m)) \/ Clear(t, c)))
            => OthersUntouched(c)
       /\ \A t \in Threads :
            LET b == frame[t].bot
                sid == frame[t].session_id
            IN  /\ (ChatCall(t) \/ (\E r \in Replies : ProviderReply(t, r))
                    \/ (\E e \in ProviderErrors : ProviderFail(t, e))
                    \/ ChatStore(t) \/ ChatReturn(t))
                    => OthersUntouched(sid)
                \* the user record goes to the caller's own session first
                /\ (pc[t] = "idle" /\ pc'[t] = "call") =>
                    /\ frame'[t].bot = bots[frame'[t].session_id]
                    /\ objs'[frame'[t].bot].conversation_history
                        = Append(History(frame'[t].bot),
                            [role |-> "user",
                             content |-> frame'[t].user_message,
                             timestamp |-> now])
                \* the provider request is sent after it, for that session
                /\ (pc[t] # "wait" /\ pc'[t] = "wait") =>
                    /\ pc[t] = "call"
                    /\ sent[t] = NoCall
                    /\ sent'[t] = ProviderRequest(objs[b],
                            frame[t].user_message, SystemPrompt)
                    /\ objs' = objs
                \* the assistant record is stored after the provider returned
                /\ (pc[t] # "store" /\ pc'[t] = "store") =>
                    /\ pc[t] \in {"wait", "call"}
                    /\ sent'[t] = NoCall
                    /\ objs' = objs
                /\ (pc[t] = "store" /\ pc'[t] # "store") =>
                    /\ pc'[t] = "ret"
                    /\ objs'[b].conversation_history
                        = Append(History(b),
                            [role |-> "assistant",
                             content |-> frame[t].response,
                             timestamp |-> now])
                    /\ \A i \in BotIds \ {b} : objs'[i] = objs[i]]_vars

\* Two chat calls on two identifiers overlap: one began first and waits to
\* store its reply, the other began later and has stored its own; the two
\* sessions differ in provider, model and credential, and each history holds
\* its own call's records only.
C14_Witness ==
    \E t \in Threads, u \in Threads :
        /\ pc[t] = "store"
        /\ pc[u] = "ret"
        /\ frame[t].session_id # frame[u].session_id
        /\ bots[frame[t].session_id] = frame[t].bot
        /\ bots[frame[u].session_id] = frame[u].bot
        /\ BotOf(t).provider # BotOf(u).provider
        /\ BotOf(t).model # BotOf(u).model
        /\ BotOf(t).api_key # BotOf(u).api_key
        /\ Roles(BotOf(t).conversation_history) = <<"user">>
        /\ Roles(BotOf(u).conversation_history) = <<"user", "assistant">>
        /\ BotOf(t).conversation_history[1].timestamp
            < BotOf(u).conversation_history[1].timestamp

\* C15: when each request runs to completion before the next starts, every
\* history holds user and assistant records only, its summary reports
\* total == userCount + assistantCount and assistantCount <= userCount, and
\* every assistant record comes right behind a user record (so no history
\* starts with an assistant record).
C15_HistoryShape ==
    \A i \in BotIds :
        objs[i] # Free =>
            LET h == History(i)
                summary == GetConversationSummary(objs[i])
            IN  /\ \A k \in 1 .. Len(h) : h[k].role \in {"user", "assistant"}
                /\ summary.total_messages
                        = summary.user_messages + summary.ai_messages
                /\ summary.ai_messages <= summary.user_messages
                /\ \A k \in 1 .. Len(h) :
                        h[k].role = "assistant" =>
                            /\ k > 1
                            /\ h[k - 1].role = "user"

\* With no request running, a session holds the user record of a chat whose
\* provider call failed, then the user and the assistant record of a chat
\* that was answered.
C15_Witness ==
    /\ AllIdle
    /\ \E s \in DOMAIN bots :
        /\ Roles(History(bots[s])) = <<"user", "user", "assistant">>
        /\ History(bots[s])[3].content \in Replies

====
